---- MODULE Spec2Model ----
(***************************************************************************)
(* Model of the request pipeline of app.py: the /api/predictions handler   *)
(* `upload`, with load_model, model_predict, the arg-max result            *)
(* interpretation and the temporary files of the uploads directory.        *)
(*                                                                         *)
(* A filename is a sequence of one-character strings.  An uploaded entry   *)
(* is a record [filename, content]; content is what f.save writes.         *)
(* The TFLite runtime is opaque: load_model either raises or returns a     *)
(* handle, and the handle carries the output row the artifact produces.    *)
(***************************************************************************)
EXTENDS Integers, Sequences, FiniteSets, TLC

\* ---------------------------------------------------------------- bounds
\* longest files list of a request handled alone
MaxFiles == 7
\* longest files list of a request handled concurrently with another one
MaxConcFiles == 2
\* longest output row given to the result interpreter on its own
MaxVecLen == 5
\* largest score in such an output row
MaxVal == 2
\* longest files list of a request followed to its end under fairness
MaxLiveFiles == 4

\* ------------------------------------------------------- program constants
\* for f in files[:6]
MaxImages == 6

class_labels == <<"EarlyPreB", "PreB", "ProB", "Benign">>

OutOfRange == "Prediction index out of range."

MODEL_PATHS ==
    [n \in {"EfficientB0", "EfficientNetB0", "MobileNetV2", "NasNetMobile"}
        |-> <<"models/", n, ".tflite">>]

\* request.form.get('model') when the form has no model field
NoModel == "None"

Reqs == {1, 2}

\* ------------------------------------------------------------- filenames
\* characters kept by werkzeug's _filename_ascii_strip_re
SafeChars == {"a", "b", ".", "_", "-"}

IsSpace(c) == c = " "

\* filename.replace(os.path.sep, " ")
ReplaceSep(s) == [i \in 1..Len(s) |-> IF s[i] = "/" THEN " " ELSE s[i]]

RECURSIVE DropSpaces(_)
DropSpaces(s) ==
    IF s # <<>> /\ IsSpace(Head(s)) THEN DropSpaces(Tail(s)) ELSE s

\* "_".join(filename.split())
RECURSIVE JoinWords(_)
JoinWords(s) ==
    LET t == DropSpaces(s)
    IN  IF t = <<>> THEN <<>>
        ELSE IF Len(t) > 1 /\ IsSpace(t[2])
             THEN IF DropSpaces(Tail(t)) = <<>>
                  THEN <<Head(t)>>
                  ELSE <<Head(t), "_">> \o JoinWords(Tail(t))
             ELSE <<Head(t)>> \o JoinWords(Tail(t))

\* _filename_ascii_strip_re.sub("", ...)
StripUnsafe(s) == SelectSeq(s, LAMBDA c : c \in SafeChars)

RECURSIVE LStrip(_)
LStrip(s) ==
    IF s # <<>> /\ Head(s) \in {".", "_"} THEN LStrip(Tail(s)) ELSE s

RECURSIVE RStrip(_)
RStrip(s) ==
    IF s # <<>> /\ s[Len(s)] \in {".", "_"}
    THEN RStrip(SubSeq(s, 1, Len(s) - 1)) ELSE s

\* werkzeug.utils.secure_filename
secure_filename(s) == RStrip(LStrip(StripUnsafe(JoinWords(ReplaceSep(s)))))

UPLOAD_FOLDER == <<"uploads">>

\* faulty variant: the temporary path keyed by a per-request token
file_path_per_request(r, f) ==
    UPLOAD_FOLDER \o <<"/", IF r = 1 THEN "r1" ELSE "r2", "-">>
        \o secure_filename(f.filename)

\* line 87, in the upload() call of request r:
\* os.path.join(UPLOAD_FOLDER, secure_filename(f.filename))
file_path_of(r, f) == UPLOAD_FOLDER \o <<"/">> \o secure_filename(f.filename)

\* the path names the uploads directory itself: f.save cannot open it
IsDirectory(p) == p = UPLOAD_FOLDER \o <<"/">>

\* ------------------------------------------------------ result interpreter
Max(v) == CHOOSE x \in {v[i] : i \in 1..Len(v)} :
              \A j \in 1..Len(v) : x >= v[j]

\* np.argmax of a non-empty row: 0-based, first occurrence of the maximum
argmax(v) ==
    (CHOOSE i \in 1..Len(v) :
        /\ v[i] = Max(v)
        /\ \A j \in 1..(i - 1) : v[j] < v[i]) - 1

\* faulty variant: the sentinel for a row shorter than the label list
interpret_short_is_sentinel(v) ==
    IF Len(v) < Len(class_labels)
    THEN [raised |-> FALSE, label |-> OutOfRange]
    ELSE [raised |-> FALSE, label |-> class_labels[argmax(v) + 1]]

\* lines 99-100: np.argmax raises ValueError on an empty row
interpret(v) ==
    IF v = <<>>
    THEN [raised |-> TRUE, label |-> ""]
    ELSE [raised |-> FALSE,
          label  |-> IF argmax(v) < Len(class_labels)
                     THEN class_labels[argmax(v) + 1]
                     ELSE OutOfRange]

\* ----------------------------------------------------------------- inputs
Empty == [filename |-> <<>>, content |-> "none"]
Good  == [filename |-> <<"/", "a">>, content |-> "img"]
Junk  == [filename |-> <<"a">>, content |-> "junk"]
Dots  == [filename |-> <<".", ".">>, content |-> "img"]
Other == [filename |-> <<"b">>, content |-> "img"]

Uploads == {Empty, Good, Junk, Dots}
ConcUploads == {Good, Junk, Other}

SeqsUpTo(S, n) == UNION {[1..k -> S] : k \in 0..n}

\* request.form.get('model')
ModelInputs == {"MobileNetV2", "ResNet50", NoModel}
ConcModelInputs == {"MobileNetV2", "ResNet50"}

\* what the artifact file turns out to be: unreadable, or a network whose
\* output row has 4 scores (a tie), 5 scores, or no score at all
Artifacts ==
    {[ok |-> FALSE, out |-> <<>>]} \cup
    {[ok |-> TRUE, out |-> o] : o \in {<<1, 5, 5, 0>>, <<0, 1, 0, 0, 2>>, <<>>}}

\* the artifacts met by requests that run concurrently
ConcArtifacts ==
    {[ok |-> FALSE, out |-> <<>>], [ok |-> TRUE, out |-> <<1, 5, 5, 0>>]}

Absent == "absent"

AllPaths ==
    {file_path_of(r, u) : r \in Reqs, u \in Uploads \cup ConcUploads}
        \ {UPLOAD_FOLDER \o <<"/">>}

\* ------------------------------------------------------------------ state
VARIABLES
    pc,          \* each request's position in upload()
    req,         \* the request: its files list and its model field
    results,     \* upload's results list
    interpreter, \* upload's interpreter: the handle load_model returned
    idx,         \* position of the for loop in files[:6]
    file_path,   \* upload's file_path
    response,    \* what upload returned (status 0: nothing yet)
    fs,          \* the uploads directory: path -> content
    nextHandle,  \* identity of the next tf.lite.Interpreter object
    loads,       \* history: <<request, handle id>> of every load_model return
    invoked,     \* history: <<request, handle id>> of every model_predict call
    saved,       \* history: the paths each request saved to
    interp       \* the result interpreter applied on its own

vars == <<pc, req, results, interpreter, idx, file_path, response, fs,
          nextHandle, loads, invoked, saved, interp>>

NoResponse == [status |-> 0]
NoHandle == [id |-> -1, model |-> NoModel, out |-> <<>>]
NoRequest == [files |-> <<>>, model |-> NoModel]
NoInterp == [vec |-> <<>>, applied |-> FALSE, raised |-> FALSE, label |-> ""]

Terminal == {"Rejected", "Responded", "Failed"}

\* ----------------------------------------------------------- the handler
\* an exception that leaves upload(): Flask answers 500
InternalError == [status |-> 500, error |-> "Internal Server Error"]

\* faulty variant: the model check moved in front of the empty-filename check
validate_model_before_empty(rq) ==
    IF Len(rq.files) = 0
    THEN [status |-> 400, error |-> "No file part."]
    ELSE IF rq.model \notin DOMAIN MODEL_PATHS
    THEN [status |-> 400, error |-> "Invalid model selected."]
    ELSE IF \A i \in 1..Len(rq.files) : rq.files[i].filename = <<>>
    THEN [status |-> 400, error |-> "At least one image file is required."]
    ELSE NoResponse

\* faulty variant: the model check moved in front of both file checks
validate_model_first(rq) ==
    IF rq.model \notin DOMAIN MODEL_PATHS
    THEN [status |-> 400, error |-> "Invalid model selected."]
    ELSE IF Len(rq.files) = 0
    THEN [status |-> 400, error |-> "No file part."]
    ELSE IF \A i \in 1..Len(rq.files) : rq.files[i].filename = <<>>
    THEN [status |-> 400, error |-> "At least one image file is required."]
    ELSE NoResponse

\* faulty variant: the model check left out
validate_no_model_check(rq) ==
    IF Len(rq.files) = 0
    THEN [status |-> 400, error |-> "No file part."]
    ELSE IF \A i \in 1..Len(rq.files) : rq.files[i].filename = <<>>
    THEN [status |-> 400, error |-> "At least one image file is required."]
    ELSE NoResponse

\* lines 68-77: the first failing check answers; status 0 lets the request on
validate(rq) ==
    IF Len(rq.files) = 0
    THEN [status |-> 400, error |-> "No file part."]
    ELSE IF Len(rq.files) = 0
            \/ \A i \in 1..Len(rq.files) : rq.files[i].filename = <<>>
    THEN [status |-> 400, error |-> "At least one image file is required."]
    ELSE IF rq.model \notin DOMAIN MODEL_PATHS
    THEN [status |-> 400, error |-> "Invalid model selected."]
    ELSE NoResponse

\* faulty variant: one interpreter object shared by every call
load_model_cached(model_name, id, art) ==
    IF model_name \notin DOMAIN MODEL_PATHS \/ ~art.ok
    THEN [raised |-> TRUE, handle |-> NoHandle]
    ELSE [raised |-> FALSE,
          handle |-> [id |-> 0, model |-> model_name, out |-> art.out]]

\* lines 35-41
load_model(model_name, id, art) ==
    IF model_name \notin DOMAIN MODEL_PATHS \/ ~art.ok
    THEN [raised |-> TRUE, handle |-> NoHandle]
    ELSE [raised |-> FALSE,
          handle |-> [id |-> id, model |-> model_name, out |-> art.out]]

\* faulty variant: the slice one entry too long
capped_seven(files) ==
    SubSeq(files, 1,
           IF Len(files) < MaxImages + 1 THEN Len(files) ELSE MaxImages + 1)

\* files[:6]
capped(files) ==
    SubSeq(files, 1, IF Len(files) < MaxImages THEN Len(files) ELSE MaxImages)

\* lines 44-58: every exception is caught and turned into None
model_predict(content, handle) ==
    IF content # "img"
    THEN [none |-> TRUE, row |-> <<>>]
    ELSE [none |-> FALSE, row |-> handle.out]

\* line 94
error_entry(f) == [filename |-> f.filename, error |-> "Prediction failed."]

\* faulty variant: the result keyed by the sanitized filename
class_entry_sanitized(f, result) ==
    [filename |-> secure_filename(f.filename), predicted_class |-> result]

\* line 101
class_entry(f, result) == [filename |-> f.filename, predicted_class |-> result]

Receive(r, lists, models) ==
    /\ pc[r] = "Idle"
    /\ \E fl \in lists, m \in models :
          req' = [req EXCEPT ![r] = [files |-> fl, model |-> m]]
    /\ pc' = [pc EXCEPT ![r] = "ValidatingInput"]
    /\ UNCHANGED <<results, interpreter, idx, file_path, response, fs,
                   nextHandle, loads, invoked, saved, interp>>

Validate(r) ==
    /\ pc[r] = "ValidatingInput"
    /\ LET v == validate(req[r])
       IN  IF v.status # 0
           THEN /\ response' = [response EXCEPT ![r] = v]
                /\ pc' = [pc EXCEPT ![r] = "Rejected"]
           ELSE /\ pc' = [pc EXCEPT ![r] = "ModelSelected"]
                /\ UNCHANGED response
    /\ UNCHANGED <<req, results, interpreter, idx, file_path, fs,
                   nextHandle, loads, invoked, saved, interp>>

LoadModel(r, arts) ==
    /\ pc[r] = "ModelSelected"
    /\ \E art \in arts :
          LET l == load_model(req[r].model, nextHandle, art)
          IN  IF l.raised
              THEN /\ pc' = [pc EXCEPT ![r] = "Failed"]
                   /\ response' = [response EXCEPT ![r] = InternalError]
                   /\ UNCHANGED <<interpreter, nextHandle, loads>>
              ELSE /\ pc' = [pc EXCEPT ![r] = "Loop"]
                   /\ interpreter' = [interpreter EXCEPT ![r] = l.handle]
                   /\ nextHandle' = nextHandle + 1
                   /\ loads' = loads \cup {<<r, l.handle.id>>}
                   /\ UNCHANGED response
    /\ UNCHANGED <<req, results, idx, file_path, fs, invoked, saved, interp>>

Loop(r) ==
    /\ pc[r] = "Loop"
    /\ IF idx[r] > Len(capped(req[r].files))
       THEN /\ pc' = [pc EXCEPT ![r] = "Responded"]
            /\ response' = [response EXCEPT
                              ![r] = [status |-> 200, results |-> results[r]]]
            /\ UNCHANGED idx
       ELSE IF capped(req[r].files)[idx[r]].filename = <<>>
       THEN /\ idx' = [idx EXCEPT ![r] = @ + 1]
            /\ UNCHANGED <<pc, response>>
       ELSE /\ pc' = [pc EXCEPT ![r] = "Saving"]
            /\ UNCHANGED <<idx, response>>
    /\ UNCHANGED <<req, results, interpreter, file_path, fs,
                   nextHandle, loads, invoked, saved, interp>>

Save(r) ==
    /\ pc[r] = "Saving"
    /\ LET f == capped(req[r].files)[idx[r]]
           p == file_path_of(r, f)
       IN  /\ file_path' = [file_path EXCEPT ![r] = p]
           /\ IF IsDirectory(p)
              THEN /\ pc' = [pc EXCEPT ![r] = "Failed"]
                   /\ response' = [response EXCEPT ![r] = InternalError]
                   /\ UNCHANGED <<fs, saved>>
              ELSE /\ fs' = [fs EXCEPT ![p] = f.content]
                   /\ saved' = [saved EXCEPT ![r] = @ \cup {p}]
                   /\ pc' = [pc EXCEPT ![r] = "Predicting"]
                   /\ UNCHANGED response
    /\ UNCHANGED <<req, results, interpreter, idx, nextHandle, loads,
                   invoked, interp>>

\* faulty variant: the exception of model_predict not caught
on_failure_raise(r, f) ==
    /\ pc' = [pc EXCEPT ![r] = "Failed"]
    /\ response' = [response EXCEPT ![r] = InternalError]
    /\ UNCHANGED results

\* lines 93-94: model_predict returned None for f
on_failure(r, f) ==
    /\ results' = [results EXCEPT ![r] = Append(@, error_entry(f))]
    /\ pc' = [pc EXCEPT ![r] = "CleaningFailed"]
    /\ UNCHANGED response

\* lines 91-101
Predict(r) ==
    /\ pc[r] = "Predicting"
    /\ LET f == capped(req[r].files)[idx[r]]
           preds == model_predict(fs[file_path[r]], interpreter[r])
           res == interpret(preds.row)
       IN  IF preds.none
           THEN on_failure(r, f)
           ELSE IF res.raised
           THEN /\ pc' = [pc EXCEPT ![r] = "Failed"]
                /\ response' = [response EXCEPT ![r] = InternalError]
                /\ UNCHANGED results
           ELSE /\ results' = [results EXCEPT
                                 ![r] = Append(@, class_entry(f, res.label))]
                /\ pc' = [pc EXCEPT ![r] = "Cleaning"]
                /\ UNCHANGED response
    /\ invoked' = invoked \cup {<<r, interpreter[r].id>>}
    /\ UNCHANGED <<req, interpreter, idx, file_path, fs, nextHandle, loads,
                   saved, interp>>

\* os.remove(file_path), then the loop's next round
os_remove(r) ==
    IF fs[file_path[r]] = Absent
    THEN /\ pc' = [pc EXCEPT ![r] = "Failed"]
         /\ response' = [response EXCEPT ![r] = InternalError]
         /\ UNCHANGED <<fs, idx>>
    ELSE /\ fs' = [fs EXCEPT ![file_path[r]] = Absent]
         /\ idx' = [idx EXCEPT ![r] = @ + 1]
         /\ pc' = [pc EXCEPT ![r] = "Loop"]
         /\ UNCHANGED response

\* lines 95-96
RemoveFailed(r) ==
    /\ pc[r] = "CleaningFailed"
    /\ os_remove(r)
    /\ UNCHANGED <<req, results, interpreter, file_path, nextHandle, loads,
                   invoked, saved, interp>>

\* line 104
Remove(r) ==
    /\ pc[r] = "Cleaning"
    /\ os_remove(r)
    /\ UNCHANGED <<req, results, interpreter, file_path, nextHandle, loads,
                   invoked, saved, interp>>

Handle(r, arts) ==
    \/ Validate(r)
    \/ LoadModel(r, arts)
    \/ Loop(r)
    \/ Save(r)
    \/ Predict(r)
    \/ RemoveFailed(r)
    \/ Remove(r)

\* --------------------------------------------------------- specifications
Init ==
    /\ pc = [r \in Reqs |-> "Idle"]
    /\ req = [r \in Reqs |-> NoRequest]
    /\ results = [r \in Reqs |-> <<>>]
    /\ interpreter = [r \in Reqs |-> NoHandle]
    /\ idx = [r \in Reqs |-> 1]
    /\ file_path = [r \in Reqs |-> <<>>]
    /\ response = [r \in Reqs |-> NoResponse]
    /\ fs = [p \in AllPaths |-> Absent]
    /\ nextHandle = 0
    /\ loads = {}
    /\ invoked = {}
    /\ saved = [r \in Reqs |-> {}]
    /\ interp = NoInterp

\* one request, handled from start to finish
Next ==
    \/ Receive(1, SeqsUpTo(Uploads, MaxFiles), ModelInputs)
    \/ Handle(1, Artifacts)

Spec == Init /\ [][Next]_vars

\* one request on its serving thread, which runs on until upload() is left
NextLive ==
    \/ Receive(1, SeqsUpTo(Uploads, MaxLiveFiles), ModelInputs)
    \/ Handle(1, Artifacts)

SpecLive == Init /\ [][NextLive]_vars /\ WF_vars(Handle(1, Artifacts))

\* two requests whose steps interleave
NextConc ==
    \E r \in Reqs :
        \/ Receive(r, SeqsUpTo(ConcUploads, MaxConcFiles), ConcModelInputs)
        \/ Handle(r, ConcArtifacts)

SpecConc == Init /\ [][NextConc]_vars

\* the result interpreter on its own, on every short output row
Vectors == SeqsUpTo(0..MaxVal, MaxVecLen)

InitInterp ==
    /\ Init!1 /\ Init!2 /\ Init!3 /\ Init!4 /\ Init!5 /\ Init!6 /\ Init!7
    /\ Init!8 /\ Init!9 /\ Init!10 /\ Init!11 /\ Init!12
    /\ interp \in {[NoInterp EXCEPT !.vec = v] : v \in Vectors}

Interpret ==
    /\ ~interp.applied
    /\ LET res == interpret(interp.vec)
       IN  interp' = [vec |-> interp.vec, applied |-> TRUE,
                      raised |-> res.raised, label |-> res.label]
    /\ UNCHANGED <<pc, req, results, interpreter, idx, file_path, response,
                   fs, nextHandle, loads, invoked, saved>>

SpecInterp == InitInterp /\ [][Interpret]_vars

\* ------------------------------------------------------------ the claims
NonEmpty(f) == f.filename # <<>>

Names(entries) == [i \in 1..Len(entries) |-> entries[i].filename]

FirstN(q, n) == SubSeq(q, 1, IF Len(q) < n THEN Len(q) ELSE n)

Started(r) == pc[r] \notin {"Idle", "ValidatingInput"}

\* C1: once a request has ended, whichever way, no path it saved a file to
\* still exists in the uploads directory.
C1_TempFilesRemoved ==
    \A r \in Reqs :
        pc[r] \in Terminal => \A p \in saved[r] : fs[p] = Absent

\* C2 as stated: a 200 response to a request with more than 6 entries holds
\* results for exactly the first 6 entries that have a non-empty filename.
C2_FirstSixNonEmpty ==
    \A r \in Reqs :
        (pc[r] = "Responded" /\ Len(req[r].files) > MaxImages)
            => Names(results[r])
                 = Names(FirstN(SelectSeq(req[r].files, NonEmpty), MaxImages))

\* C2 amended: a 200 response to a request with more than 6 entries holds
\* results for exactly the non-empty-filename entries among the first 6
\* entries of the list, in order; an empty-filename entry among the first 6
\* uses up one of the 6 places, and entry 7 and later never produce a result.
C2_NonEmptyAmongFirstSix ==
    \A r \in Reqs :
        (pc[r] = "Responded" /\ Len(req[r].files) > MaxImages)
            => Names(results[r])
                 = Names(SelectSeq(SubSeq(req[r].files, 1, MaxImages), NonEmpty))

C2_Witness ==
    /\ pc[1] = "Responded"
    /\ Len(req[1].files) > MaxImages
    /\ \E i \in 1..MaxImages : ~NonEmpty(req[1].files[i])
    /\ NonEmpty(req[1].files[MaxImages + 1])
    /\ Len(results[1]) = MaxImages - 1

\* C3 as stated: when the request's uploaded files (its entries with a
\* filename) number N, 1 <= N <= 6, the 200 response has exactly N results,
\* the i-th carrying the original filename of the i-th uploaded file.
C3_OneResultPerUploadedFile ==
    \A r \in Reqs :
        LET ups == SelectSeq(req[r].files, NonEmpty)
        IN  (pc[r] = "Responded" /\ Len(ups) \in 1..MaxImages)
                => /\ Len(response[r].results) = Len(ups)
                   /\ Names(response[r].results) = Names(ups)

\* C3 amended: the 200 response has one result per non-empty-filename entry
\* among the first 6 entries of the files list, in the order of the list,
\* each carrying that entry's original (unsanitized) filename and either a
\* predicted_class or an error; so it has exactly N results when the list
\* has N <= 6 entries and all of them have a filename.
C3_OneResultPerProcessedEntry ==
    \A r \in Reqs :
        LET done == SelectSeq(SubSeq(req[r].files, 1,
                                 IF Len(req[r].files) < MaxImages
                                 THEN Len(req[r].files) ELSE MaxImages),
                              NonEmpty)
            out == response[r].results
        IN  pc[r] = "Responded"
                => /\ response[r].status = 200
                   /\ Names(out) = Names(done)
                   /\ \A i \in 1..Len(out) :
                         \/ DOMAIN out[i] = {"filename", "predicted_class"}
                         \/ DOMAIN out[i] = {"filename", "error"}
                   /\ ((Len(req[r].files) <= MaxImages
                          /\ \A i \in 1..Len(req[r].files) :
                                NonEmpty(req[r].files[i]))
                         => Len(out) = Len(req[r].files))

C3_Witness ==
    /\ pc[1] = "Responded"
    /\ Len(req[1].files) = 3
    /\ ~NonEmpty(req[1].files[1])
    /\ Len(response[1].results) = 2
    /\ response[1].results[1].filename = <<"/", "a">>
    /\ response[1].results[2].filename = <<"a">>
    /\ secure_filename(response[1].results[1].filename) = <<"a">>

\* C4 as stated: a request whose model is not a key of the registry is
\* answered 400 "Invalid model selected.", whatever its files are.
C4_InvalidModelWhateverFiles ==
    \A r \in Reqs :
        (Started(r) /\ req[r].model \notin DOMAIN MODEL_PATHS)
            => response[r] = [status |-> 400, error |-> "Invalid model selected."]

\* C4 amended: a request whose model is not a key of the registry is always
\* rejected with 400; the message is "Invalid model selected." when at least
\* one entry of its files field has a filename, "No file part." when it has
\* no files field, and "At least one image file is required." when every
\* entry has an empty filename.
C4_InvalidModelAfterFileChecks ==
    \A r \in Reqs :
        LET fl == req[r].files
        IN  (Started(r) /\ req[r].model \notin DOMAIN MODEL_PATHS)
                => /\ pc[r] = "Rejected"
                   /\ response[r].status = 400
                   /\ response[r].error =
                        IF fl = <<>> THEN "No file part."
                        ELSE IF \A i \in 1..Len(fl) : ~NonEmpty(fl[i])
                        THEN "At least one image file is required."
                        ELSE "Invalid model selected."

C4_Witness ==
    /\ pc[1] = "Rejected"
    /\ req[1].model = NoModel
    /\ \E i \in 1..Len(req[1].files) : NonEmpty(req[1].files[i])
    /\ response[1] = [status |-> 400, error |-> "Invalid model selected."]

\* C5: a request without a files field is answered 400 "No file part.",
\* whatever its model field; it loads no model and writes no temporary file.
C5_NoFilePart ==
    \A r \in Reqs :
        (Started(r) /\ req[r].files = <<>>)
            => /\ pc[r] = "Rejected"
               /\ response[r] = [status |-> 400, error |-> "No file part."]
               /\ \A l \in loads : l[1] # r
               /\ saved[r] = {}
               /\ \A p \in AllPaths : fs[p] = Absent

C5_Witness ==
    /\ pc[1] = "Rejected"
    /\ req[1].files = <<>>
    /\ req[1].model = "ResNet50"
    /\ response[1].error = "No file part."

\* C6 as stated: a request ends Rejected (400) or Responded (200), and in no
\* other way, whatever load_model, f.save, model_predict, np.argmax and
\* os.remove do.
C6_TwoTerminalStates ==
    \A r \in Reqs :
        /\ pc[r] \in Terminal => pc[r] \in {"Rejected", "Responded"}
        /\ response[r].status \in {0, 400, 200}

\* C6 amended: a request ends in exactly one of three ways: Rejected (400)
\* during validation, before any model is loaded or file saved; Responded
\* (200) after the loop over files[:6]; or, once validation has passed, with
\* an exception that leaves upload() (500) when load_model, f.save,
\* np.argmax or os.remove raises.  A request that was received does end.
C6_ThreeTerminalStates ==
    /\ \A r \in Reqs : pc[r] = "ValidatingInput" ~> pc[r] \in Terminal
    /\ [](\A r \in Reqs :
        LET fl == req[r].files
        IN  /\ response[r].status \in {0, 400, 200, 500}
            /\ response[r].status = 0 <=> pc[r] \notin Terminal
            /\ response[r].status = 400 <=> pc[r] = "Rejected"
            /\ response[r].status = 200 <=> pc[r] = "Responded"
            /\ response[r].status = 500 <=> pc[r] = "Failed"
            /\ pc[r] = "Rejected"
                 => /\ \A l \in loads : l[1] # r
                    /\ saved[r] = {}
                    /\ results[r] = <<>>
            /\ pc[r] = "Responded"
                 => /\ idx[r] > Len(fl) \/ idx[r] > MaxImages
                    /\ response[r].results = results[r]
            /\ pc[r] = "Failed"
                 => /\ req[r].model \in DOMAIN MODEL_PATHS
                    /\ \E i \in 1..Len(fl) : NonEmpty(fl[i]))

C6_Witness ==
    /\ pc[1] = "Failed"
    /\ response[1].status = 500
    /\ loads = {}
    /\ saved[1] = {}
    /\ req[1].model \in DOMAIN MODEL_PATHS

\* the entries of files[:6] with a filename that request r has dealt with
Processed(r) ==
    {i \in 1..Len(req[r].files) :
        /\ i <= MaxImages
        /\ NonEmpty(req[r].files[i])
        /\ \/ i < idx[r]
           \/ i = idx[r] /\ pc[r] \in {"Cleaning", "CleaningFailed"}}

C8_ShortRowGivesSentinel ==
    (interp.applied /\ Len(interp.vec) < Len(class_labels))
        => ~interp.raised /\ interp.label = OutOfRange

\* C8 amended: the interpreter returns the label at the first position of
\* the row's maximum when that position is within the 4 class labels, which
\* it always is for a non-empty row of at most 4 scores; it returns the
\* sentinel exactly when that position is beyond the 4th, which needs a row
\* longer than 4; it raises exactly for the empty row.
C8_SentinelOnlyBeyondLabels ==
    interp.applied =>
        LET v == interp.vec
            first == {i \in 1..Len(v) :
                        /\ \A j \in 1..Len(v) : v[j] <= v[i]
                        /\ \A j \in 1..(i - 1) : v[j] < v[i]}
        IN  /\ interp.raised <=> v = <<>>
            /\ \A i \in first :
                  interp.label = IF i <= Len(class_labels)
                                 THEN class_labels[i] ELSE OutOfRange
            /\ interp.label = OutOfRange
                 <=> \E i \in first : i > Len(class_labels)
            /\ (v # <<>> /\ Len(v) <= Len(class_labels))
                 => \E i \in 1..Len(v) : interp.label = class_labels[i]

C8_Witness ==
    /\ interp.applied
    /\ interp.vec = <<0, 1, 2>>
    /\ ~interp.raised
    /\ interp.label = "ProB"

InLoop == {"Loop", "Saving", "Predicting", "Cleaning", "CleaningFailed"}

\* C9: no request gets more than one handle from load_model; a request that
\* is in or past the loop got exactly one, so it had it before it saved its
\* first file; every model_predict call of a request is given that handle;
\* a request rejected at validation got none and called model_predict never;
\* and no handle belongs to, or is used by, two requests.
C9_OneHandlePerRequest ==
    \A r \in Reqs :
        /\ Cardinality({l \in loads : l[1] = r}) <= 1
        /\ (pc[r] \in InLoop \cup {"Responded"} \/ saved[r] # {})
             => loads \cap ({r} \X Int) = {<<r, interpreter[r].id>>}
        /\ \A u \in invoked : u[1] = r => u = <<r, interpreter[r].id>> /\ u \in loads
        /\ pc[r] = "Rejected"
             => (\A l \in loads : l[1] # r) /\ (\A u \in invoked : u[1] # r)
        /\ \A s \in Reqs \ {r} :
              \A l \in loads \cup invoked :
                  l[1] = r => <<s, l[2]>> \notin loads \cup invoked

C9_Witness ==
    /\ pc[1] = "Cleaning" /\ pc[2] = "Cleaning"
    /\ interpreter[1].model = interpreter[2].model
    /\ interpreter[1].id # interpreter[2].id
    /\ <<1, interpreter[1].id>> \in invoked
    /\ <<2, interpreter[2].id>> \in invoked

Holding == {"Predicting", "Cleaning", "CleaningFailed"}

\* C10: two requests that each hold a saved file (saved, not yet deleted)
\* whose sanitized filenames are equal hold the same temporary path; and a
\* request finds its temporary file missing or holding other bytes before it
\* has deleted it only when the other request has saved to that same path.
C10_SharedTemporaryPath ==
    \A r \in Reqs : \A s \in Reqs \ {r} :
        LET fr == req[r].files[idx[r]]
        IN  /\ (pc[r] \in Holding /\ pc[s] \in Holding
                  /\ secure_filename(fr.filename)
                       = secure_filename(req[s].files[idx[s]].filename))
                 => file_path[r] = file_path[s]
            /\ (pc[r] \in Holding /\ fs[file_path[r]] # fr.content)
                 => file_path[r] \in saved[s]

\* request 1 still has to predict from its file, which request 2, given the
\* same sanitized name, has overwritten and then deleted
C10_Witness ==
    /\ pc[1] = "Predicting"
    /\ fs[file_path[1]] = Absent
    /\ req[1].files[idx[1]] = Good
    /\ file_path[1] \in saved[2]
    /\ Junk \in {req[2].files[i] : i \in 1..Len(req[2].files)}

====
